---- MODULE Spec2Model ----
(***************************************************************************)
(* Model of the undirected graph container of Graph.hpp                    *)
(* (template <typename V, typename E> class Graph).                        *)
(*                                                                         *)
(* nodes_      : the node table, a vector of (position, node value) pairs  *)
(* adjacency_  : the adjacency table, one vector of (neighbour id, edge    *)
(*               value) pairs per node; an undirected edge is stored as    *)
(*               two half-edges                                            *)
(*                                                                         *)
(* pc, it, seen, edges0 : a client loop over the edges with an             *)
(*               EdgeIterator: where the loop is, the iterator's cursor    *)
(*               (center_, outid_), the edges it has yielded, and the      *)
(*               edges the graph had when the loop began; the loop over    *)
(*               the edges incident to a node keeps the cursor of its      *)
(*               IncidentIterator in it as well                            *)
(*                                                                         *)
(* nit, nodes0 : a client loop over the nodes with a NodeIterator: the     *)
(*               iterator's nodeindex_ and the node table the graph had    *)
(*               when the loop began (pc and seen are shared with the      *)
(*               edge loop)                                                *)
(*                                                                         *)
(* waiting, max : the queue and the running maximum of                    *)
(*               shortest_path_lengths, which keeps the path lengths in    *)
(*               the node values                                           *)
(*                                                                         *)
(* q           : the last query a client made on handles (comparison,      *)
(*               dual, edge(i), or a call whose precondition is checked    *)
(*               by an assertion) and what it returned                     *)
(*                                                                         *)
(* Node ids, slot indices and loop counters are 0-based as in the C++      *)
(* code; the TLA+ sequences that hold the vectors are 1-based, so vector   *)
(* element v[i] is written v[i + 1].                                       *)
(***************************************************************************)
EXTENDS Integers, Sequences, FiniteSets, TLC

VARIABLES nodes_, adjacency_, aborted, last, pc, it, seen, edges0,
          nit, nodes0, q, waiting, max

vars == <<nodes_, adjacency_, aborted, last, pc, it, seen, edges0,
          nit, nodes0, q, waiting, max>>

\* The state of the client loop over the edges.
iterVars == <<pc, it, seen, edges0>>

\* The state of the client loop over the nodes.
nodeIterVars == <<nit, nodes0>>

\* The locals of shortest_path_lengths: its queue and its running maximum.
bfsVars == <<waiting, max>>

\* Everything a client holds besides the graph.
clientVars == <<iterVars, nodeIterVars, q, bfsVars>>

(***************************************************************************)
(* Bounds of the model.                                                    *)
(***************************************************************************)
MaxNodes == 3
MaxEdges == 2
\* The number of payload cells (node positions, node values, edge values)
\* that hold a value other than 0 at one time.
MaxMarked == 1

\* The values the inputs are drawn from: positions (Point), node values (V)
\* and edge values (E).
Points == {0, 1}
NodeValues == {1}
EdgeValues == {0, 1}

\* node_value_type() and edge_value_type(): the value-initialised payloads.
DefaultNodeValue == 0
DefaultEdgeValue == 0

(***************************************************************************)
(* Queries.                                                                *)
(***************************************************************************)
\* Graph::size over a node table.
SizeOf(nodes) == Len(nodes)

size == SizeOf(nodes_)

\* The ids for which has_node holds.
NodeIds == 0 .. (size - 1)

\* Node::degree: the length of the node's adjacency list.
Degree(adj, n) == Len(adj[n + 1])

\* Graph::has_edge: scan a's adjacency list for neighbour id b.
HasEdge(adj, aid, bid) ==
    \E i \in 0 .. (Degree(adj, aid) - 1) : adj[aid + 1][i + 1].first = bid

\* The accumulation loop of Graph::num_edges over the first k lists.
RECURSIVE SumSizes(_, _)
SumSizes(adj, k) ==
    IF k = 0 THEN 0 ELSE SumSizes(adj, k - 1) + Len(adj[k])

\* Graph::num_edges: the sum of the adjacency list sizes, halved
\* (unsigned integer division).
NumEdges(adj) == SumSizes(adj, Len(adj)) \div 2

num_edges == NumEdges(adjacency_)

\* Edge::Node2Id: the neighbour id stored at slot s of node a's list.
Node2Id(adj, a, s) == adj[a + 1][s + 1].first

\* The number of entries of a list of (first, second) pairs whose component
\* differs from 0, and the sum of these numbers over a table of lists.
MarkedIn(lst) ==
    Cardinality({j \in 1 .. Len(lst) : lst[j].second # 0})

RECURSIVE MarkedEdges(_, _)
MarkedEdges(adj, k) ==
    IF k = 0 THEN 0 ELSE MarkedEdges(adj, k - 1) + MarkedIn(adj[k])

Marked(nodes, adj) ==
    Cardinality({j \in 1 .. Len(nodes) : nodes[j].first # 0})
        + MarkedIn(nodes) + MarkedEdges(adj, Len(adj))

(***************************************************************************)
(* The record of the call that produced the current state: its name, its   *)
(* arguments, what it returned, and num_edges() as it was before the call. *)
(* retEdge is the Edge handle (node1_id_, node2_vecid_) returned by        *)
(* add_edge; remove_node records the removed id in a and the last id in b. *)
(***************************************************************************)
NoEdge == <<-1, -1>>

\* No query made yet.
NoQuery == [op |-> "none"]

Call(op, a, b, retBool, retEdge) ==
    [op |-> op, a |-> a, b |-> b, retBool |-> retBool, retEdge |-> retEdge,
     ne |-> num_edges]

Init ==
    /\ nodes_ = <<>>
    /\ adjacency_ = <<>>
    /\ aborted = FALSE
    /\ last = Call("Graph", -1, -1, FALSE, NoEdge)
    /\ pc = "build"
    /\ it = NoEdge
    /\ seen = <<>>
    /\ edges0 = {}
    /\ nit = 0
    /\ nodes0 = <<>>
    /\ q = NoQuery
    /\ waiting = <<>>
    /\ max = 0

(***************************************************************************)
(* add_node                                                                *)
(***************************************************************************)
\* PushNode storing a value-initialised node value whatever value is given.
PushNode_IgnoreValue(nodes, p, v) ==
    Append(nodes, [first |-> p, second |-> DefaultNodeValue])

\* nodes_.push_back(curnode)
PushNode(nodes, p, v) == Append(nodes, [first |-> p, second |-> v])

\* adjacency_.push_back(curadj) with curadj empty
PushAdj(adj) == Append(adj, <<>>)

\* Graph::add_node(const Point&, const node_value_type&)
AddNodeValue(p, v) ==
    /\ ~aborted
    /\ size < MaxNodes
    /\ nodes_' = PushNode(nodes_, p, v)
    /\ adjacency_' = PushAdj(adjacency_)
    /\ Marked(nodes_', adjacency_') <= MaxMarked
    /\ last' = Call("add_node", SizeOf(nodes_') - 1, -1, FALSE, NoEdge)
    /\ UNCHANGED aborted

\* Graph::add_node(const Point&)
AddNode(p) ==
    /\ ~aborted
    /\ size < MaxNodes
    /\ nodes_' = PushNode(nodes_, p, DefaultNodeValue)
    /\ adjacency_' = PushAdj(adjacency_)
    /\ Marked(nodes_', adjacency_') <= MaxMarked
    /\ last' = Call("add_node", SizeOf(nodes_') - 1, -1, FALSE, NoEdge)
    /\ UNCHANGED aborted

(***************************************************************************)
(* add_edge                                                                *)
(***************************************************************************)
\* The half-edge pair (neighbour id, edge value) stored in an adjacency list.
HalfEdge(nbr, v) == [first |-> nbr, second |-> v]

\* The search loop of add_edge: the first slot of a's list whose neighbour
\* id is bid, or -1 when the loop runs to the end.
FindSlot(adj, aid, bid) ==
    IF HasEdge(adj, aid, bid)
    THEN CHOOSE i \in 0 .. (Degree(adj, aid) - 1) :
            /\ adj[aid + 1][i + 1].first = bid
            /\ \A k \in 0 .. (i - 1) : adj[aid + 1][k + 1].first # bid
    ELSE -1

\* PushHalves inserting at the front of both lists instead of appending.
PushHalves_Front(adj, aid, bid) ==
    LET adj1 == [adj EXCEPT ![aid + 1] =
                    <<HalfEdge(bid, DefaultEdgeValue)>> \o @]
    IN  [adj1 EXCEPT ![bid + 1] = <<HalfEdge(aid, DefaultEdgeValue)>> \o @]

\* PushHalves with the second push_back left out.
PushHalves_OneSide(adj, aid, bid) ==
    [adj EXCEPT ![aid + 1] = Append(@, HalfEdge(bid, DefaultEdgeValue))]

\* PushHalves with bpair pushed onto both lists.
PushHalves_SameTarget(adj, aid, bid) ==
    LET adj1 == [adj EXCEPT ![aid + 1] =
                    Append(@, HalfEdge(bid, DefaultEdgeValue))]
    IN  [adj1 EXCEPT ![bid + 1] = Append(@, HalfEdge(bid, DefaultEdgeValue))]

\* adjacency_[aid].push_back(bpair); adjacency_[bid].push_back(apair);
PushHalves(adj, aid, bid) ==
    LET adj1 == [adj EXCEPT ![aid + 1] =
                    Append(@, HalfEdge(bid, DefaultEdgeValue))]
    IN  [adj1 EXCEPT ![bid + 1] = Append(@, HalfEdge(aid, DefaultEdgeValue))]

\* AddEdgeAdj without the search loop.
AddEdgeAdj_NoCheck(adj, aid, bid) == PushHalves(adj, aid, bid)

\* The adjacency table after add_edge(a, b).
AddEdgeAdj(adj, aid, bid) ==
    IF FindSlot(adj, aid, bid) # -1 THEN adj ELSE PushHalves(adj, aid, bid)

\* AddEdgeRet returning the last slot of a's list also for an edge found.
AddEdgeRet_LastSlot(adj, aid, bid) ==
    <<aid, Degree(AddEdgeAdj(adj, aid, bid), aid) - 1>>

\* The Edge returned by add_edge(a, b): Edge(this, aid, i) for the slot found,
\* else Edge(this, aid, adjacency_[aid].size() - 1) after the push.
AddEdgeRet(adj, aid, bid) ==
    IF FindSlot(adj, aid, bid) # -1
    THEN <<aid, FindSlot(adj, aid, bid)>>
    ELSE <<aid, Degree(PushHalves(adj, aid, bid), aid) - 1>>

\* Graph::add_edge(a, b) for distinct valid nodes of this graph.
AddEdge(a, b) ==
    /\ ~aborted
    /\ a \in NodeIds /\ b \in NodeIds /\ a # b
    /\ HasEdge(adjacency_, a, b) \/ num_edges < MaxEdges
    /\ adjacency_' = AddEdgeAdj(adjacency_, a, b)
    /\ last' = Call("add_edge", a, b, FALSE, AddEdgeRet(adjacency_, a, b))
    /\ UNCHANGED <<nodes_, aborted>>

(***************************************************************************)
(* remove_edge                                                             *)
(***************************************************************************)
\* SwapPop without the copy of the last entry into slot j.
SwapPop_PopOnly(lst, j) == SubSeq(lst, 1, Len(lst) - 1)

\* SwapPop that copies only the neighbour id of the last entry into slot j.
SwapPop_IdOnly(lst, j) ==
    SubSeq([lst EXCEPT ![j + 1].first = lst[Len(lst)].first],
           1, Len(lst) - 1)

\* lst[j] = lst.back(); lst.pop_back();
SwapPop(lst, j) ==
    SubSeq([lst EXCEPT ![j + 1] = lst[Len(lst)]], 1, Len(lst) - 1)

\* for (j = j0; j < lst.size(); ++j) if (lst[j].first == target) swap-pop.
\* The bound lst.size() is read again on every iteration, and the entry
\* swapped into slot j is not tested.
RECURSIVE EraseScan(_, _, _)
EraseScan(lst, target, j) ==
    IF j >= Len(lst) THEN lst
    ELSE IF lst[j + 1].first = target
         THEN EraseScan(SwapPop(lst, j), target, j + 1)
         ELSE EraseScan(lst, target, j + 1)

\* EraseHalves with the second loop left out.
EraseHalves_FirstOnly(adj, aid, bid) ==
    [adj EXCEPT ![aid + 1] = EraseScan(@, bid, 0)]

\* The two erase loops of remove_edge(a, b).
EraseHalves(adj, aid, bid) ==
    LET adj1 == [adj EXCEPT ![aid + 1] = EraseScan(@, bid, 0)]
    IN  [adj1 EXCEPT ![bid + 1] = EraseScan(@, aid, 0)]

\* The adjacency table after remove_edge(a, b).
RemoveEdgeAdj(adj, aid, bid) ==
    IF ~HasEdge(adj, aid, bid) THEN adj ELSE EraseHalves(adj, aid, bid)

\* RemoveEdgeRet without the early return of line 540.
RemoveEdgeRet_NoEarlyReturn(adj, aid, bid) ==
    ~HasEdge(RemoveEdgeAdj(adj, aid, bid), aid, bid)

\* The value returned by remove_edge(a, b).
RemoveEdgeRet(adj, aid, bid) ==
    IF ~HasEdge(adj, aid, bid) THEN FALSE
    ELSE ~HasEdge(EraseHalves(adj, aid, bid), aid, bid)

\* Graph::remove_edge(const Node&, const Node&) for valid nodes of this graph.
RemoveEdge(a, b) ==
    /\ ~aborted
    /\ a \in NodeIds /\ b \in NodeIds
    /\ adjacency_' = RemoveEdgeAdj(adjacency_, a, b)
    /\ last' = Call("remove_edge", a, b, RemoveEdgeRet(adjacency_, a, b), NoEdge)
    /\ UNCHANGED <<nodes_, aborted>>

(***************************************************************************)
(* remove_node                                                             *)
(***************************************************************************)
\* MoveLastNode without the pop_back.
MoveLastNode_NoPop(nodes, nid) ==
    [nodes EXCEPT ![nid + 1] = nodes[Len(nodes)]]

\* MoveLastNode as nodes_.erase(nodes_.begin() + nid): the later entries
\* shift down by one.
MoveLastNode_Shift(nodes, nid) ==
    [k \in 1 .. (Len(nodes) - 1) |->
        IF k <= nid THEN nodes[k] ELSE nodes[k + 1]]

\* g->nodes_[nid] = g->nodes_[lid]; g->nodes_.pop_back();
MoveLastNode(nodes, nid) ==
    LET lid == Len(nodes) - 1
    IN  SubSeq([nodes EXCEPT ![nid + 1] = nodes[lid + 1]], 1, lid)

\* RemoveReciprocals with the loop left out.
RemoveReciprocals_None(adj, nid, i) == adj

\* The first double loop of remove_node, from outer index i on: for every
\* entry (oid, _) of nid's list, erase the entries of oid's list that point
\* at nid.
RECURSIVE RemoveReciprocals(_, _, _)
RemoveReciprocals(adj, nid, i) ==
    IF i >= Len(adj[nid + 1]) THEN adj
    ELSE LET oid == adj[nid + 1][i + 1].first
         IN  RemoveReciprocals(
                 [adj EXCEPT ![oid + 1] = EraseScan(@, nid, 0)], nid, i + 1)

\* MoveLastAdj without the pop_back.
MoveLastAdj_NoPop(adj, nid) ==
    [adj EXCEPT ![nid + 1] = adj[Len(adj)]]

\* g->adjacency_[nid] = g->adjacency_[lid]; g->adjacency_.pop_back();
MoveLastAdj(adj, nid) ==
    LET lid == Len(adj) - 1
    IN  SubSeq([adj EXCEPT ![nid + 1] = adj[lid + 1]], 1, lid)

\* RetargetScan without the store.
RetargetScan_None(lst, lid, nid) == lst

\* The inner loop of the second double loop: every entry of lst that points
\* at lid is made to point at nid.
RetargetScan(lst, lid, nid) ==
    [j \in 1 .. Len(lst) |->
        IF lst[j].first = lid THEN [lst[j] EXCEPT !.first = nid] ELSE lst[j]]

\* The second double loop of remove_node, from outer index i on: for every
\* entry (loid, _) of the list now at nid, retarget loid's entries.
RECURSIVE Retarget(_, _, _, _)
Retarget(adj, nid, lid, i) ==
    IF i >= Len(adj[nid + 1]) THEN adj
    ELSE LET loid == adj[nid + 1][i + 1].first
         IN  Retarget(
                 [adj EXCEPT ![loid + 1] = RetargetScan(@, lid, nid)],
                 nid, lid, i + 1)

\* The adjacency table after remove_node on node nid.  When nid is the last
\* id the second double loop reads adjacency_[nid] after the pop_back, one
\* past the end of the table: it can only store nid over an id equal to
\* lid = nid, so the table keeps the contents it has after the pop_back.
RemoveNodeAdj(adj, nid) ==
    LET lid  == Len(adj) - 1
        adj1 == RemoveReciprocals(adj, nid, 0)
        adj2 == MoveLastAdj(adj1, nid)
    IN  IF nid = lid THEN adj2 ELSE Retarget(adj2, nid, lid, 0)

\* What the read of adjacency_[nid] past the end of the table can do when
\* nid is the last id: go unnoticed (FALSE) or stop the program (TRUE).
PastEndOutcomes(adj, nid) ==
    IF nid = Len(adj) - 1 THEN {FALSE, TRUE} ELSE {FALSE}

\* Graph::remove_node(const Node&) for a node with has_node(n).
RemoveNode(n) ==
    /\ ~aborted
    /\ n \in NodeIds
    /\ nodes_' = MoveLastNode(nodes_, n)
    /\ adjacency_' = RemoveNodeAdj(adjacency_, n)
    /\ aborted' \in PastEndOutcomes(adjacency_, n)
    /\ last' = Call("remove_node", n, size - 1, FALSE, NoEdge)

(***************************************************************************)
(* clear and Edge::value                                                   *)
(***************************************************************************)
\* Clear without adjacency_.clear().
Clear_NodesOnly ==
    /\ ~aborted
    /\ nodes_' = <<>>
    /\ adjacency_' = adjacency_
    /\ last' = Call("clear", -1, -1, FALSE, NoEdge)
    /\ UNCHANGED aborted

\* Graph::clear
Clear ==
    /\ ~aborted
    /\ nodes_' = <<>>
    /\ adjacency_' = <<>>
    /\ last' = Call("clear", -1, -1, FALSE, NoEdge)
    /\ UNCHANGED aborted

\* StoreEdgeValue that writes the reciprocal half-edge instead.
StoreEdgeValue_Reciprocal(adj, a, s, v) ==
    LET b == adj[a + 1][s + 1].first
    IN  [adj EXCEPT ![b + 1] =
            [j \in 1 .. Len(@) |->
                IF @[j].first = a THEN [@[j] EXCEPT !.second = v] ELSE @[j]]]

\* A store through the reference returned by Edge::value() of Edge(a, s).
StoreEdgeValue(adj, a, s, v) == [adj EXCEPT ![a + 1][s + 1].second = v]

EdgeSetValue(a, s, v) ==
    /\ ~aborted
    /\ a \in NodeIds
    /\ s \in 0 .. (Degree(adjacency_, a) - 1)
    /\ adjacency_' = StoreEdgeValue(adjacency_, a, s, v)
    /\ Marked(nodes_, adjacency_') <= MaxMarked
    /\ last' = Call("edge_value", a, s, FALSE, NoEdge)
    /\ UNCHANGED <<nodes_, aborted>>

(***************************************************************************)
(* The graph under any sequence of public operations.                      *)
(***************************************************************************)
Next ==
    \/ \E p \in Points : AddNode(p) /\ UNCHANGED clientVars
    \/ \E p \in Points, v \in NodeValues :
          AddNodeValue(p, v) /\ UNCHANGED clientVars
    \/ \E a, b \in 0 .. (MaxNodes - 1) : AddEdge(a, b) /\ UNCHANGED clientVars
    \/ \E a, b \in 0 .. (MaxNodes - 1) :
          RemoveEdge(a, b) /\ UNCHANGED clientVars
    \/ \E n \in 0 .. (MaxNodes - 1) : RemoveNode(n) /\ UNCHANGED clientVars
    \/ \E a \in 0 .. (MaxNodes - 1), s \in 0 .. (MaxNodes - 1),
          v \in EdgeValues :
          EdgeSetValue(a, s, v) /\ UNCHANGED clientVars
    \/ Clear /\ UNCHANGED clientVars

Spec == Init /\ [][Next]_vars

(***************************************************************************)
(* Invariants of the tables.                                               *)
(***************************************************************************)
\* The sum over the node ids i < size() of degree(i).
RECURSIVE SumDegrees(_, _)
SumDegrees(adj, n) ==
    IF n = 0 THEN 0 ELSE SumDegrees(adj, n - 1) + Degree(adj, n - 1)

\* The last call was a remove_node that moved the last node into the freed
\* id, and the moved node has an incident edge.
MovedWithEdges ==
    /\ last.op = "remove_node"
    /\ last.a < last.b
    /\ Degree(adjacency_, last.a) > 0

\* C1: the live node ids are exactly 0 .. size()-1: the node table and the
\* adjacency table have the same length size() and are indexed without gaps.
C1_Density ==
    /\ Len(adjacency_) = size
    /\ DOMAIN nodes_ = {k + 1 : k \in NodeIds}
    /\ DOMAIN adjacency_ = {k + 1 : k \in NodeIds}

C1_Witness ==
    /\ last.op = "remove_node"
    /\ last.a < last.b
    /\ size >= 2

\* C2: has_edge(a, b) = has_edge(b, a) for all valid nodes a and b.
C2_Symmetry ==
    \A a, b \in NodeIds :
        HasEdge(adjacency_, a, b) = HasEdge(adjacency_, b, a)

C2_Witness ==
    /\ MovedWithEdges
    /\ last.ne > num_edges

\* C3: no adjacency list holds two entries with the same neighbour id.
C3_NoParallel ==
    \A a \in NodeIds :
        \A i, j \in 0 .. (Degree(adjacency_, a) - 1) :
            i # j => Node2Id(adjacency_, a, i) # Node2Id(adjacency_, a, j)

\* A neighbour of the removed node kept an entry, which was retargeted.
C3_Witness ==
    /\ MovedWithEdges
    /\ last.ne >= 2
    /\ num_edges = last.ne - 1

\* C4: every stored half-edge (a -> b) has b < size() and b # a.
C4_ValidTargets ==
    \A a \in NodeIds :
        \A i \in 0 .. (Degree(adjacency_, a) - 1) :
            /\ Node2Id(adjacency_, a, i) \in NodeIds
            /\ Node2Id(adjacency_, a, i) # a

C4_Witness ==
    /\ MovedWithEdges
    /\ last.b = size

\* C5: the number of stored half-edges is even, and num_edges() is half the
\* sum of the degrees of the nodes.
C5_CountConsistency ==
    SumDegrees(adjacency_, size) = 2 * num_edges

C5_Witness ==
    /\ last.op = "add_edge"
    /\ num_edges = last.ne + 1
    /\ num_edges = MaxEdges

(***************************************************************************)
(* remove_node                                                             *)
(***************************************************************************)
\* The id at which the node found at id k after remove_node(nid) was found
\* before the call, lid being the last id before the call.
OldId(k, nid, lid) == IF k = nid THEN lid ELSE k

\* C6: remove_node(n) decreases size() by exactly 1 and num_edges() by
\* exactly the degree n had before the call.
C6_RemovalShrinks ==
    [][last'.op = "remove_node" =>
        /\ size' = size - 1
        /\ num_edges' = num_edges - Degree(adjacency_, last'.a)]_vars

C6_Witness ==
    /\ last.op = "remove_node"
    /\ last.ne > num_edges
    /\ num_edges > 0

\* C7: remove_node(n) removes only the edges incident to n: between any two
\* surviving nodes has_edge is what it was before the call, the node now at
\* id nid being the one that was at the last id.
C7_OtherEdgesSurvive ==
    [][last'.op = "remove_node" =>
        \A u, v \in 0 .. (size' - 1) :
            HasEdge(adjacency_', u, v) =
                HasEdge(adjacency_, OldId(u, last'.a, last'.b),
                                    OldId(v, last'.a, last'.b))]_vars

C7_Witness ==
    /\ MovedWithEdges
    /\ last.ne = num_edges + 1

\* C8: remove_node(n) relocates only one node: id nid then holds the
\* position and value id lid held, every other id holds what it held.
C8_OnlyLastRelocated ==
    [][last'.op = "remove_node" =>
        /\ size' = size - 1
        /\ \A k \in 0 .. (size' - 1) :
              nodes_'[k + 1] = nodes_[OldId(k, last'.a, last'.b) + 1]]_vars

C8_Witness ==
    /\ last.op = "remove_node"
    /\ last.a < last.b
    /\ nodes_[last.a + 1].first # 0
    /\ size >= 2

(***************************************************************************)
(* add_edge                                                                *)
(***************************************************************************)
\* The slot of the half-edge (a -> b) in a's list.
SlotOf(adj, a, b) ==
    CHOOSE i \in 0 .. (Degree(adj, a) - 1) : Node2Id(adj, a, i) = b

\* C9: for distinct valid nodes a, b with no edge between them add_edge(a, b)
\* returns an edge e with e.node1() = a and e.node2() = b, makes
\* has_edge(a, b) and has_edge(b, a) true, increases num_edges(), degree(a)
\* and degree(b) by exactly 1 each, and stores a default value in both halves.
C9_AddNewEdge ==
    [][(last'.op = "add_edge" /\ ~HasEdge(adjacency_, last'.a, last'.b)) =>
        LET a == last'.a
            b == last'.b
            e == last'.retEdge
        IN  /\ e[1] = a
            /\ e[2] \in 0 .. (Degree(adjacency_', a) - 1)
            /\ Node2Id(adjacency_', e[1], e[2]) = b
            /\ HasEdge(adjacency_', a, b)
            /\ HasEdge(adjacency_', b, a)
            /\ num_edges' = num_edges + 1
            /\ Degree(adjacency_', a) = Degree(adjacency_, a) + 1
            /\ Degree(adjacency_', b) = Degree(adjacency_, b) + 1
            /\ adjacency_'[a + 1][e[2] + 1].second = DefaultEdgeValue
            /\ adjacency_'[b + 1][SlotOf(adjacency_', b, a) + 1].second
                  = DefaultEdgeValue]_vars

C9_Witness ==
    /\ last.op = "add_edge"
    /\ num_edges = last.ne + 1
    /\ Degree(adjacency_, last.a) >= 2

\* C10: add_edge(a, b) on an existing edge leaves num_edges() and every
\* adjacency list unchanged and returns an edge e with e.node1() = a and
\* e.node2() = b.
C10_AddIdempotent ==
    [][(last'.op = "add_edge" /\ HasEdge(adjacency_, last'.a, last'.b)) =>
        /\ adjacency_' = adjacency_
        /\ num_edges' = num_edges
        /\ last'.retEdge[1] = last'.a
        /\ last'.retEdge[2] \in 0 .. (Degree(adjacency_', last'.a) - 1)
        /\ Node2Id(adjacency_', last'.retEdge[1], last'.retEdge[2])
              = last'.b]_vars

C10_Witness ==
    /\ last.op = "add_edge"
    /\ num_edges = last.ne
    /\ last.retEdge[2] < Degree(adjacency_, last.a) - 1

\* C11: add_edge invalidates no outstanding Edge: every handle (origin id,
\* slot) valid before add_edge(a, b) denotes the same neighbour and the same
\* stored value after the call.
C11_AddEdgeKeepsHandles ==
    [][last'.op = "add_edge" =>
        \A x \in NodeIds :
            \A s \in 0 .. (Degree(adjacency_, x) - 1) :
                /\ s < Degree(adjacency_', x)
                /\ adjacency_'[x + 1][s + 1] = adjacency_[x + 1][s + 1]]_vars

C11_Witness ==
    /\ last.op = "add_edge"
    /\ num_edges = last.ne + 1
    /\ Degree(adjacency_, last.b) >= 2
    /\ \E s \in 0 .. (Degree(adjacency_, last.b) - 1) :
          adjacency_[last.b + 1][s + 1].second # DefaultEdgeValue

(***************************************************************************)
(* add_node                                                                *)
(***************************************************************************)
\* What add_node promises for position p and node value v.
AddNodePost(p, v) ==
    /\ size' = size + 1
    /\ last'.a = size
    /\ Degree(adjacency_', last'.a) = 0
    /\ nodes_'[last'.a + 1] = [first |-> p, second |-> v]
    /\ \A k \in NodeIds :
          /\ nodes_'[k + 1] = nodes_[k + 1]
          /\ adjacency_'[k + 1] = adjacency_[k + 1]
    /\ num_edges' = num_edges

\* C12: add_node(position[, value]) increases num_nodes() by 1 and returns a
\* node with index() = old num_nodes(), degree 0 and the supplied (or the
\* default) value; every existing id keeps its position, value and adjacency
\* list, and num_edges() is unchanged.
C12_AddNode ==
    [][/\ \A p \in Points : AddNode(p) => AddNodePost(p, DefaultNodeValue)
       /\ \A p \in Points, v \in NodeValues :
             AddNodeValue(p, v) => AddNodePost(p, v)]_vars

C12_Witness ==
    /\ last.op = "add_node"
    /\ num_edges >= 1
    /\ nodes_[size].second # DefaultNodeValue

(***************************************************************************)
(* remove_edge                                                             *)
(***************************************************************************)
\* The value stored in the half-edge (u -> v).
HalfValue(adj, u, v) == adj[u + 1][SlotOf(adj, u, v) + 1].second

\* C13: remove_edge(a, b) returns true exactly when an edge between a and b
\* existed; afterwards has_edge(a, b) and has_edge(b, a) are false, and
\* num_edges() has decreased by 1 if the edge existed.
C13_RemoveEdge ==
    [][last'.op = "remove_edge" =>
        /\ last'.retBool = HasEdge(adjacency_, last'.a, last'.b)
        /\ ~HasEdge(adjacency_', last'.a, last'.b)
        /\ ~HasEdge(adjacency_', last'.b, last'.a)
        /\ HasEdge(adjacency_, last'.a, last'.b) =>
              num_edges' = num_edges - 1]_vars

C13_Witness ==
    /\ last.op = "remove_edge"
    /\ last.retBool
    /\ num_edges = last.ne - 1

\* C14: remove_edge(a, b) on valid nodes with no edge between them (a = b
\* included) returns false and leaves num_edges(), every adjacency list and
\* every node unchanged.
C14_RemoveMissingEdge ==
    [][(last'.op = "remove_edge"
            /\ ~HasEdge(adjacency_, last'.a, last'.b)) =>
        /\ ~last'.retBool
        /\ adjacency_' = adjacency_
        /\ nodes_' = nodes_
        /\ num_edges' = num_edges]_vars

C14_Witness ==
    /\ last.op = "remove_edge"
    /\ ~last.retBool
    /\ last.a = last.b
    /\ num_edges >= 1

\* C15: remove_edge(a, b) on an existing edge changes only the lists of a and
\* b: every other edge still exists with both half values unchanged, and
\* every handle (x, s) other than those on the removed slot or on the old
\* last slot of a's or b's list denotes the same neighbour and value.
C15_RemoveEdgeFrame ==
    [][(last'.op = "remove_edge"
            /\ HasEdge(adjacency_, last'.a, last'.b)) =>
        LET a == last'.a
            b == last'.b
        IN  /\ nodes_' = nodes_
            /\ \A x \in NodeIds \ {a, b} :
                  adjacency_'[x + 1] = adjacency_[x + 1]
            /\ \A u, v \in NodeIds :
                  ({u, v} # {a, b} /\ HasEdge(adjacency_, u, v)) =>
                      /\ HasEdge(adjacency_', u, v)
                      /\ HalfValue(adjacency_', u, v)
                            = HalfValue(adjacency_, u, v)
            /\ \A x \in {a, b} :
                  \A s \in 0 .. (Degree(adjacency_, x) - 1) :
                      (/\ Node2Id(adjacency_, x, s) \notin {a, b}
                       /\ s # Degree(adjacency_, x) - 1) =>
                          /\ s < Degree(adjacency_', x)
                          /\ adjacency_'[x + 1][s + 1]
                                = adjacency_[x + 1][s + 1]]_vars

C15_Witness ==
    /\ last.op = "remove_edge"
    /\ last.retBool
    /\ Degree(adjacency_, last.a) >= 1
    /\ adjacency_[last.a + 1][1].second # DefaultEdgeValue

(***************************************************************************)
(* clear                                                                   *)
(***************************************************************************)
\* C16: clear() yields num_nodes() = 0 and num_edges() = 0 with both tables
\* as in a freshly constructed graph, and the next add_node returns index 0
\* with degree 0.
C16_Clear ==
    [][/\ last'.op = "clear" =>
            /\ size' = 0
            /\ num_edges' = 0
            /\ nodes_' = <<>>
            /\ adjacency_' = <<>>
       /\ (last.op = "clear" /\ last'.op = "add_node") =>
            /\ last'.a = 0
            /\ size' = 1
            /\ Degree(adjacency_', 0) = 0]_vars

C16_Witness ==
    /\ last.op = "clear"
    /\ last.ne >= 1

(***************************************************************************)
(* EdgeIterator.  A cursor is the pair (center_, outid_).                  *)
(***************************************************************************)
\* Graph::edge_begin: EdgeIterator(this, 0, 0).
EdgeBegin(adj) == <<0, 0>>

\* Graph::edge_end: EdgeIterator(this, adjacency_.size(), 0).
EdgeEnd(adj) == <<Len(adj), 0>>

\* EdgeIterator::operator== for two iterators of this graph: the centers are
\* compared, and outid_ is compared with itself.
IterEq(i, j) == i[1] = j[1] /\ i[2] = i[2]

\* Fix with outid_ kept when center_ advances.
RECURSIVE Fix_NoReset(_, _, _)
Fix_NoReset(adj, c, o) ==
    IF c >= Len(adj) THEN <<c, o>>
    ELSE IF o < Len(adj[c + 1])
         THEN IF c < adj[c + 1][o + 1].first
              THEN <<c, o>>
              ELSE Fix_NoReset(adj, c, o + 1)
         ELSE Fix_NoReset(adj, c + 1, o)

\* EdgeIterator::fix from cursor (c, o): the two nested while loops.
RECURSIVE Fix(_, _, _)
Fix(adj, c, o) ==
    IF c >= Len(adj) THEN <<c, o>>
    ELSE IF o < Len(adj[c + 1])
         THEN IF c < adj[c + 1][o + 1].first
              THEN <<c, o>>
              ELSE Fix(adj, c, o + 1)
         ELSE Fix(adj, c + 1, 0)

\* EdgeIterator::operator++: ++outid_; fix();
Incr(adj, i) == Fix(adj, i[1], i[2] + 1)

\* The cursor is on a stored half-edge: adjacency_[center_][outid_] exists.
OnHalfEdge(adj, i) ==
    /\ i[1] \in 0 .. (Len(adj) - 1)
    /\ i[2] \in 0 .. (Len(adj[i[1] + 1]) - 1)

\* EdgeIterator::operator* followed by node1() and node2() on the Edge.
Deref(adj, i) == <<i[1], Node2Id(adj, i[1], i[2])>>

\* IterRemoveAdj's cursor without the call of fix().
IterRemoveCursor_NoFix(adj, i) == i

\* Graph::remove_edge(edge_iterator): the adjacency table after
\* remove_edge(e) for e = *e_it, and the cursor returned after e_it.fix().
IterRemoveAdj(adj, i) == RemoveEdgeAdj(adj, i[1], Node2Id(adj, i[1], i[2]))

IterRemoveCursor(adj, i) == Fix(IterRemoveAdj(adj, i), i[1], i[2])

(***************************************************************************)
(* A client that builds a graph with the public operations and then runs   *)
(*   for (it = g.edge_begin(); it != g.edge_end(); ) {                     *)
(*     e = *it;  then either ++it or it = g.remove_edge(it);  }            *)
(***************************************************************************)
\* What the Edge read through a cursor that is on no stored half-edge
\* denotes.
Garbage == <<-1, -1>>

\* The logical edges of the graph as pairs (a, b) with a < b.
EdgeSet(adj) ==
    {e \in (0 .. (Len(adj) - 1)) \X (0 .. (Len(adj) - 1)) :
        e[1] < e[2] /\ HasEdge(adj, e[1], e[2])}

\* One public operation on the tables.
TableStep ==
    \/ \E p \in Points, v \in NodeValues \cup {DefaultNodeValue} :
          /\ size < MaxNodes
          /\ nodes_' = PushNode(nodes_, p, v)
          /\ adjacency_' = PushAdj(adjacency_)
          /\ Marked(nodes_', adjacency_') <= MaxMarked
          /\ UNCHANGED aborted
    \/ \E a, b \in NodeIds :
          /\ a # b
          /\ HasEdge(adjacency_, a, b) \/ num_edges < MaxEdges
          /\ adjacency_' = AddEdgeAdj(adjacency_, a, b)
          /\ UNCHANGED <<nodes_, aborted>>
    \/ \E a, b \in NodeIds :
          /\ adjacency_' = RemoveEdgeAdj(adjacency_, a, b)
          /\ UNCHANGED <<nodes_, aborted>>
    \/ \E n \in NodeIds :
          /\ nodes_' = MoveLastNode(nodes_, n)
          /\ adjacency_' = RemoveNodeAdj(adjacency_, n)
          /\ aborted' \in PastEndOutcomes(adjacency_, n)
    \/ \E a \in NodeIds, v \in EdgeValues :
          \E s \in 0 .. (Degree(adjacency_, a) - 1) :
              /\ adjacency_' = StoreEdgeValue(adjacency_, a, s, v)
              /\ Marked(nodes_, adjacency_') <= MaxMarked
              /\ UNCHANGED <<nodes_, aborted>>
    \/ /\ nodes_' = <<>>
       /\ adjacency_' = <<>>
       /\ UNCHANGED aborted

IterBuild ==
    /\ pc = "build"
    /\ ~aborted
    /\ TableStep
    /\ UNCHANGED <<last, clientVars>>

\* it = g.edge_begin()
IterBegin ==
    /\ pc = "build"
    /\ ~aborted
    /\ pc' = "loop"
    /\ it' = EdgeBegin(adjacency_)
    /\ seen' = <<>>
    /\ edges0' = EdgeSet(adjacency_)
    /\ UNCHANGED <<nodes_, adjacency_, aborted, last, nodeIterVars, q>>
    /\ UNCHANGED bfsVars

\* it != g.edge_end() is false: the loop is left.
IterFinish ==
    /\ pc = "loop"
    /\ IterEq(it, EdgeEnd(adjacency_))
    /\ pc' = "done"
    /\ UNCHANGED <<nodes_, adjacency_, aborted, last, it, seen, edges0,
                   nodeIterVars, q>>
    /\ UNCHANGED bfsVars

\* e = *it; ++it;
IterVisit ==
    /\ pc = "loop"
    /\ ~IterEq(it, EdgeEnd(adjacency_))
    /\ OnHalfEdge(adjacency_, it)
    /\ seen' = Append(seen, Deref(adjacency_, it))
    /\ it' = Incr(adjacency_, it)
    /\ UNCHANGED <<nodes_, adjacency_, aborted, last, pc, edges0,
                   nodeIterVars, q>>
    /\ UNCHANGED bfsVars

\* e = *it; it = g.remove_edge(it);
IterVisitRemove ==
    /\ pc = "loop"
    /\ ~IterEq(it, EdgeEnd(adjacency_))
    /\ OnHalfEdge(adjacency_, it)
    /\ seen' = Append(seen, Deref(adjacency_, it))
    /\ adjacency_' = IterRemoveAdj(adjacency_, it)
    /\ it' = IterRemoveCursor(adjacency_, it)
    /\ UNCHANGED <<nodes_, aborted, last, pc, edges0, nodeIterVars, q>>
    /\ UNCHANGED bfsVars

\* The loop body entered with a cursor that is on no stored half-edge:
\* e.node2() reads adjacency_[center_][outid_] out of range.  The program
\* stops there, or the client gets an Edge that denotes no edge of the
\* graph; has_edge finds no such edge, so remove_edge(it) removes nothing,
\* and the cursor goes on from ++it or from fix().
IterPastEnd ==
    /\ pc = "loop"
    /\ ~IterEq(it, EdgeEnd(adjacency_))
    /\ ~OnHalfEdge(adjacency_, it)
    /\ \/ /\ pc' = "fault"
          /\ UNCHANGED <<it, seen>>
       \/ /\ seen' = Append(seen, Garbage)
          /\ it' \in {Incr(adjacency_, it), Fix(adjacency_, it[1], it[2])}
          /\ UNCHANGED pc
    /\ UNCHANGED <<nodes_, adjacency_, aborted, last, edges0,
                   nodeIterVars, q>>
    /\ UNCHANGED bfsVars

NextIter ==
    \/ IterBuild
    \/ IterBegin
    \/ IterFinish
    \/ IterVisit
    \/ IterVisitRemove
    \/ IterPastEnd

SpecIter == Init /\ [][NextIter]_vars

(***************************************************************************)
(* Properties of the edge loop.                                            *)
(***************************************************************************)
\* The cursor is on a half-edge the iterator surfaces: center < neighbour.
Surfaced(adj, i) ==
    OnHalfEdge(adj, i) /\ i[1] < Node2Id(adj, i[1], i[2])

\* All cursors on surfaced half-edges.
SurfacedCursors(adj) ==
    {i \in (0 .. (Len(adj) - 1)) \X (0 .. (Len(adj) - 1)) : Surfaced(adj, i)}

\* (center, slot) lexicographic order.
LexLess(i, j) == i[1] < j[1] \/ (i[1] = j[1] /\ i[2] < j[2])

\* The first surfaced half-edge at or after cursor i, or the terminal
\* sentinel.
SurfacedFrom(adj, i) ==
    LET later == {j \in SurfacedCursors(adj) : ~LexLess(j, i)}
    IN  IF later = {} THEN EdgeEnd(adj)
        ELSE CHOOSE j \in later : \A k \in later : k = j \/ LexLess(j, k)

\* The first surfaced half-edge after cursor i, or the terminal sentinel.
NextSurfaced(adj, i) == SurfacedFrom(adj, <<i[1], i[2] + 1>>)

\* An edge (node1, node2) as the pair (smaller id, larger id).
Unordered(e) == IF e[1] < e[2] THEN e ELSE <<e[2], e[1]>>

\* The edges of the graph that the loop has yielded.
Yielded == SelectSeq(seen, LAMBDA e : e # Garbage)

\* The sequence sq lists every edge of the set S exactly once.
ExactlyOnce(sq, S) ==
    /\ Len(sq) = Cardinality(S)
    /\ {Unordered(sq[k]) : k \in 1 .. Len(sq)} = S

\* C17: in every reachable graph, advancing an EdgeIterator from
\* edge_begin() until it equals edge_end() dereferences only existing
\* half-edges and yields every logical edge exactly once.
C17_EdgeIteration ==
    /\ pc # "fault"
    /\ \A k \in 1 .. Len(seen) : seen[k] # Garbage
    /\ (pc = "done" /\ EdgeSet(adjacency_) = edges0) =>
          ExactlyOnce(seen, edges0)

\* C18: the cursor of the iterator returned by edge_begin() is on a surfaced
\* half-edge, or it is the terminal sentinel (node_count, 0) and compares
\* equal to edge_end().
C18_BeginNormalized ==
    (pc = "loop" /\ seen = <<>>) =>
        \/ Surfaced(adjacency_, it)
        \/ /\ it = <<size, 0>>
           /\ IterEq(it, EdgeEnd(adjacency_))

\* C19: operator++ on an iterator that is on a surfaced half-edge leaves the
\* cursor on the next surfaced half-edge in (center, slot) order, or on the
\* terminal sentinel (node_count, 0); never on a half-edge with
\* center > neighbour.
C19_IncrementNormalizes ==
    [][(IterVisit /\ Surfaced(adjacency_, it)) =>
        /\ it' = NextSurfaced(adjacency_, it)
        /\ Surfaced(adjacency_, it') \/ it' = <<size, 0>>]_vars

\* operator++ passed over a half-edge with center > neighbour.
C19_Witness ==
    /\ pc = "loop"
    /\ Len(seen) >= 1
    /\ seen[Len(seen)][1] < it[1]
    /\ Surfaced(adjacency_, it)
    /\ it[2] >= 1
    /\ EdgeSet(adjacency_) = edges0

\* C20: remove_edge(it) on an iterator that is on a surfaced half-edge
\* removes exactly the edge *it and returns an iterator on a surfaced
\* half-edge or at the end; the loop continued from it yields every edge not
\* yet visited exactly once and no edge already visited, so that a loop with
\* removals has yielded every edge the graph had exactly once.
C20_RemoveThroughIterator ==
    [][/\ (IterVisitRemove /\ Surfaced(adjacency_, it)) =>
            /\ EdgeSet(adjacency_')
                  = EdgeSet(adjacency_) \ {Deref(adjacency_, it)}
            /\ num_edges' = num_edges - 1
            /\ \/ Surfaced(adjacency_', it')
               \/ it' = EdgeEnd(adjacency_')
            /\ it' = SurfacedFrom(adjacency_', it)
       /\ (pc' = "done" /\ EdgeSet(adjacency_') # edges0) =>
            ExactlyOnce(Yielded', edges0)]_vars

\* A finished loop that removed an edge and kept an edge.
C20_Witness ==
    /\ pc = "done"
    /\ EdgeSet(adjacency_) # edges0
    /\ EdgeSet(adjacency_) # {}
    /\ Len(seen) >= 2

(***************************************************************************)
(* Handles.  A Node holds (graph_, node_id_); graph_ is the address of the *)
(* graph it was obtained from.  The graph of the tables nodes_ and         *)
(* adjacency_ lives at ThisGraph; a second graph lives at OtherGraph.      *)
(***************************************************************************)
ThisGraph == 1
OtherGraph == 2

\* Node(graph, node_id)
NodeHandle(g, i) == [graph_ |-> g, node_id_ |-> i]

\* Graph::node(i), for i < size().
node(i) == NodeHandle(ThisGraph, i)

\* Node::index()
Index(n) == n.node_id_

(***************************************************************************)
(* A client that builds a graph with the public operations and then runs   *)
(*   for (ni = g.node_begin(); ni != g.node_end(); ) {                     *)
(*     n = *ni;  then either ++ni or ni = g.remove_node(ni);  }            *)
(***************************************************************************)
NodeBegin(nodes) == 0

NodeEnd(nodes) == SizeOf(nodes)

\* NodeIterator::operator== of two iterators of this graph.
NodeIterEq(i, j) == i = j

\* NodeIterator::operator++ that steps over a node.
NodeIncr_Skip(i) == i + 2

\* NodeIterator::operator++
NodeIncr(i) == i + 1

\* NodeIterator::operator*
NodeDeref(i) == NodeHandle(ThisGraph, i)

\* remove_node(n_it) that returns the advanced iterator.
RemoveNodeItRet_Advance(i) == i + 1

\* The iterator remove_node(n_it) returns: its argument.
RemoveNodeItRet(i) == i

\* ni = g.node_begin()
NodeLoopBegin ==
    /\ pc = "build"
    /\ ~aborted
    /\ pc' = "nloop"
    /\ nit' = NodeBegin(nodes_)
    /\ seen' = <<>>
    /\ nodes0' = nodes_
    /\ UNCHANGED <<nodes_, adjacency_, aborted, last, it, edges0, q>>
    /\ UNCHANGED bfsVars

\* ni != g.node_end() is false: the loop is left.
NodeLoopFinish ==
    /\ pc = "nloop"
    /\ ~aborted
    /\ NodeIterEq(nit, NodeEnd(nodes_))
    /\ pc' = "done"
    /\ UNCHANGED <<nodes_, adjacency_, aborted, last, it, seen, edges0,
                   nodeIterVars, q>>
    /\ UNCHANGED bfsVars

\* n = *ni; ++ni;
NodeVisit ==
    /\ pc = "nloop"
    /\ ~aborted
    /\ ~NodeIterEq(nit, NodeEnd(nodes_))
    /\ nit < size
    /\ seen' = Append(seen, NodeDeref(nit))
    /\ nit' = NodeIncr(nit)
    /\ UNCHANGED <<nodes_, adjacency_, aborted, last, pc, it, edges0,
                   nodes0, q>>
    /\ UNCHANGED bfsVars

\* n = *ni; ni = g.remove_node(ni);
NodeVisitRemove ==
    /\ pc = "nloop"
    /\ ~aborted
    /\ ~NodeIterEq(nit, NodeEnd(nodes_))
    /\ nit < size
    /\ seen' = Append(seen, NodeDeref(nit))
    /\ nodes_' = MoveLastNode(nodes_, Index(NodeDeref(nit)))
    /\ adjacency_' = RemoveNodeAdj(adjacency_, Index(NodeDeref(nit)))
    /\ aborted' \in PastEndOutcomes(adjacency_, Index(NodeDeref(nit)))
    /\ nit' = RemoveNodeItRet(nit)
    /\ UNCHANGED <<last, pc, it, edges0, nodes0, q>>
    /\ UNCHANGED bfsVars

NextNode ==
    \/ IterBuild
    \/ NodeLoopBegin
    \/ NodeLoopFinish
    \/ NodeVisit
    \/ NodeVisitRemove

SpecNode == Init /\ [][NextNode]_vars

\* C21: remove_node(n_it) for n_it != node_end() removes the node *n_it
\* (size() drops by one, num_edges() by the degree of the node, every other
\* id below the last keeps its node) and returns an iterator with the id of
\* n_it: it refers to the node that had the last id, or it equals
\* node_end() when the removed node was the last one.
C21_RemoveNodeIterator ==
    [][NodeVisitRemove =>
        /\ size' = size - 1
        /\ num_edges' = num_edges - Degree(adjacency_, nit)
        /\ \A k \in 0 .. (size' - 1) :
              k # nit => nodes_'[k + 1] = nodes_[k + 1]
        /\ nit' = nit
        /\ nit < size - 1 =>
              /\ ~NodeIterEq(nit', NodeEnd(nodes_'))
              /\ nodes_'[Index(NodeDeref(nit')) + 1] = nodes_[size]
        /\ nit = size - 1 => NodeIterEq(nit', NodeEnd(nodes_'))]_vars

\* A loop that has removed a node below the last id, so that the iterator
\* now refers to the node that was last, which is told apart by its
\* position.
C21_Witness ==
    /\ pc = "nloop"
    /\ ~aborted
    /\ size = Len(nodes0) - 1
    /\ nit < size
    /\ nodes_[nit + 1] = nodes0[Len(nodes0)]
    /\ nodes0[nit + 1] # nodes0[Len(nodes0)]

\* C22: a NodeIterator advanced from node_begin() until it equals node_end()
\* yields exactly size() node handles with index() 0, 1, ..., size() - 1 in
\* this order, and node(i).index() = i for every i < size().
C22_NodeIteration ==
    (pc = "done" /\ nodes_ = nodes0) =>
        /\ Len(seen) = size
        /\ \A k \in 1 .. Len(seen) : Index(seen[k]) = k - 1
        /\ \A i \in NodeIds : Index(node(i)) = i

C22_Witness ==
    /\ pc = "done"
    /\ nodes_ = nodes0
    /\ size >= 2
    /\ Len(seen) = size

(***************************************************************************)
(* A client that builds a graph, takes a valid node n and then runs        *)
(*   for (ii = n.edge_begin(); ii != n.edge_end(); ++ii) e = *ii;          *)
(* The cursor (center_, outid_) of the IncidentIterator is kept in it.     *)
(***************************************************************************)
\* Node::edge_begin()
IncBegin(adj, n) == <<n, 0>>

\* Node::edge_end() that stops at slot 0.
IncEnd_AtBegin(adj, n) == <<n, 0>>

\* Node::edge_end()
IncEnd(adj, n) == <<n, Len(adj[n + 1])>>

\* IncidentIterator::operator== of two iterators of this graph.
IncIterEq(i, j) == i[1] = j[1] /\ i[2] = j[2]

\* IncidentIterator::operator++
IncIncr(i) == <<i[1], i[2] + 1>>

\* IncidentIterator::operator*, read as (node1().index(), node2().index()).
IncDeref(adj, i) == <<i[1], Node2Id(adj, i[1], i[2])>>

\* ii = n.edge_begin()
IncLoopBegin ==
    /\ pc = "build"
    /\ ~aborted
    /\ \E n \in NodeIds : it' = IncBegin(adjacency_, n)
    /\ pc' = "iloop"
    /\ seen' = <<>>
    /\ UNCHANGED <<nodes_, adjacency_, aborted, last, edges0,
                   nodeIterVars, q>>
    /\ UNCHANGED bfsVars

\* ii != n.edge_end() is false: the loop is left.
IncLoopFinish ==
    /\ pc = "iloop"
    /\ IncIterEq(it, IncEnd(adjacency_, it[1]))
    /\ pc' = "done"
    /\ UNCHANGED <<nodes_, adjacency_, aborted, last, it, seen, edges0,
                   nodeIterVars, q>>
    /\ UNCHANGED bfsVars

\* e = *ii; ++ii;
IncVisit ==
    /\ pc = "iloop"
    /\ ~IncIterEq(it, IncEnd(adjacency_, it[1]))
    /\ it[2] < Degree(adjacency_, it[1])
    /\ seen' = Append(seen, IncDeref(adjacency_, it))
    /\ it' = IncIncr(it)
    /\ UNCHANGED <<nodes_, adjacency_, aborted, last, pc, edges0,
                   nodeIterVars, q>>
    /\ UNCHANGED bfsVars

NextInc ==
    \/ IterBuild
    \/ IncLoopBegin
    \/ IncLoopFinish
    \/ IncVisit

SpecInc == Init /\ [][NextInc]_vars

\* C23: for every valid node n, an IncidentIterator advanced from
\* n.edge_begin() until it equals n.edge_end() yields exactly n.degree()
\* edges, each with node1() = n, and their node2() are exactly the nodes m
\* with has_edge(n, m), each once.
C23_IncidentIteration ==
    pc = "done" =>
        /\ Len(seen) = Degree(adjacency_, it[1])
        /\ \A k \in 1 .. Len(seen) : seen[k][1] = it[1]
        /\ {seen[k][2] : k \in 1 .. Len(seen)} =
              {m \in NodeIds : HasEdge(adjacency_, it[1], m)}
        /\ \A j, k \in 1 .. Len(seen) : seen[j][2] = seen[k][2] => j = k

\* A finished loop around a node with two neighbours.
C23_Witness ==
    /\ pc = "done"
    /\ Len(seen) >= 2
    /\ seen[1][2] # seen[2][2]

(***************************************************************************)
(* Node and Edge handles of two graphs, and the functions on them.         *)
(* An Edge holds (graph_, node1_id_, node2_vecid_).  The graph at          *)
(* OtherGraph has two nodes joined by one edge.                            *)
(***************************************************************************)
OtherAdj ==
    << <<HalfEdge(1, DefaultEdgeValue)>>, <<HalfEdge(0, DefaultEdgeValue)>> >>

Graphs == {ThisGraph, OtherGraph}

\* The adjacency table of the graph at address g.
AdjOf(g) == IF g = ThisGraph THEN adjacency_ ELSE OtherAdj

\* Edge(graph, node1_id, node2_vecid)
EdgeHandle(g, a, s) == [graph_ |-> g, node1_id_ |-> a, node2_vecid_ |-> s]

\* The handles of the nodes the two graphs have.
ValidNodes ==
    UNION {{NodeHandle(g, i) : i \in 0 .. (Len(AdjOf(g)) - 1)} : g \in Graphs}

\* The handles of the half-edges the two graphs store.
ValidEdges ==
    UNION {UNION {{EdgeHandle(g, a, s) :
                      s \in 0 .. (Degree(AdjOf(g), a) - 1)} :
                  a \in 0 .. (Len(AdjOf(g)) - 1)} : g \in Graphs}

\* Node::operator==
NodeEq(x, y) == x.graph_ = y.graph_ /\ x.node_id_ = y.node_id_

\* Node::operator< that compares the ids only.
NodeLess_IdOnly(x, y) == x.node_id_ < y.node_id_

\* Node::operator<
NodeLess(x, y) ==
    IF x.graph_ = y.graph_ /\ x.node_id_ < y.node_id_ THEN TRUE
    ELSE IF x.graph_ < y.graph_ THEN TRUE
    ELSE FALSE

\* Edge::Node2Id() of a handle
EdgeNode2Id(e) == Node2Id(AdjOf(e.graph_), e.node1_id_, e.node2_vecid_)

\* Edge::node1() and Edge::node2()
EdgeNode1(e) == NodeHandle(e.graph_, e.node1_id_)

EdgeNode2(e) == NodeHandle(e.graph_, EdgeNode2Id(e))

\* Edge::operator== that compares the endpoints in order only.
EdgeEq_Ordered(e, f) ==
    /\ e.graph_ = f.graph_
    /\ e.node1_id_ = f.node1_id_ /\ EdgeNode2Id(e) = EdgeNode2Id(f)

\* Edge::operator==
EdgeEq(e, f) ==
    /\ e.graph_ = f.graph_
    /\ \/ e.node1_id_ = f.node1_id_ /\ EdgeNode2Id(e) = EdgeNode2Id(f)
       \/ EdgeNode2Id(e) = f.node1_id_ /\ e.node1_id_ = EdgeNode2Id(f)

\* std::min and std::max
Min(a, b) == IF b < a THEN b ELSE a

Max(a, b) == IF a < b THEN b ELSE a

\* Edge::operator< that compares (node1, node2) as stored.
EdgeLess_ByOrigin(e, f) ==
    \/ e.graph_ < f.graph_
    \/ /\ e.graph_ = f.graph_
       /\ \/ e.node1_id_ < f.node1_id_
          \/ e.node1_id_ = f.node1_id_ /\ EdgeNode2Id(e) < EdgeNode2Id(f)

\* Edge::operator<
EdgeLess(e, f) ==
    LET curmin == Min(e.node1_id_, EdgeNode2Id(e))
        curmax == Max(e.node1_id_, EdgeNode2Id(e))
        emin   == Min(f.node1_id_, EdgeNode2Id(f))
        emax   == Max(f.node1_id_, EdgeNode2Id(f))
    IN  \/ e.graph_ < f.graph_
        \/ /\ e.graph_ = f.graph_
           /\ \/ curmin < emin
              \/ curmin = emin /\ curmax < emax

\* What Edge() builds: a handle that denotes no edge of any graph.
InvalidEdge == [graph_ |-> 0, node1_id_ |-> -1, node2_vecid_ |-> -1]

\* Edge::dual() that returns the last slot of the far endpoint's list.
EdgeDual_LastSlot(e) ==
    EdgeHandle(e.graph_, EdgeNode2Id(e),
               Degree(AdjOf(e.graph_), EdgeNode2Id(e)) - 1)

\* Edge::dual(): the first slot of the far endpoint's list that points back
\* at node1, or Edge() when the loop runs to the end.
EdgeDual(e) ==
    LET node2id == EdgeNode2Id(e)
        lst == AdjOf(e.graph_)[node2id + 1]
        hits == {p \in 0 .. (Len(lst) - 1) : lst[p + 1].first = e.node1_id_}
    IN  IF hits = {} THEN InvalidEdge
        ELSE EdgeHandle(e.graph_, node2id,
                        CHOOSE p \in hits : \A r \in hits : p <= r)

(***************************************************************************)
(* A client that builds a graph with the public operations and then        *)
(* makes one query on handles of it and of the other graph.                *)
(***************************************************************************)
\* One public operation; the payloads stay at their defaults, which the
\* queries never read.
HandleBuild ==
    /\ pc = "build"
    /\ ~aborted
    /\ TableStep
    /\ Marked(nodes_', adjacency_') = 0
    /\ UNCHANGED <<last, clientVars>>

\* x == y, x < y and y < x for two node handles.
CompareNodes ==
    /\ pc = "build"
    /\ ~aborted
    /\ \E x, y \in ValidNodes :
          q' = [op |-> "node_cmp", x |-> x, y |-> y, eq |-> NodeEq(x, y),
                lt |-> NodeLess(x, y), gt |-> NodeLess(y, x)]
    /\ pc' = "asked"
    /\ UNCHANGED <<nodes_, adjacency_, aborted, last, it, seen, edges0,
                   nodeIterVars>>
    /\ UNCHANGED bfsVars

\* e == f, e < f and f < e for two edge handles.
CompareEdges ==
    /\ pc = "build"
    /\ ~aborted
    /\ \E e, f \in ValidEdges :
          q' = [op |-> "edge_cmp", x |-> e, y |-> f, eq |-> EdgeEq(e, f),
                lt |-> EdgeLess(e, f), gt |-> EdgeLess(f, e)]
    /\ pc' = "asked"
    /\ UNCHANGED <<nodes_, adjacency_, aborted, last, it, seen, edges0,
                   nodeIterVars>>
    /\ UNCHANGED bfsVars

\* e.dual()
QueryDual ==
    /\ pc = "build"
    /\ ~aborted
    /\ \E e \in ValidEdges : q' = [op |-> "dual", x |-> e, ret |-> EdgeDual(e)]
    /\ pc' = "asked"
    /\ UNCHANGED <<nodes_, adjacency_, aborted, last, it, seen, edges0,
                   nodeIterVars>>
    /\ UNCHANGED bfsVars

\* std::next(first, k): operator++ applied k times.
RECURSIVE StdNext(_, _, _)
StdNext(adj, cur, k) ==
    IF k = 0 THEN cur ELSE StdNext(adj, Incr(adj, cur), k - 1)

\* The Edge that Graph::edge(i) returns for i < num_edges().
EdgeIndex(adj, i) ==
    LET cur == StdNext(adj, EdgeBegin(adj), i)
    IN  EdgeHandle(ThisGraph, cur[1], cur[2])

\* g.edge(i); the assertion i < num_edges() stops the program otherwise.
QueryEdge ==
    /\ pc = "build"
    /\ ~aborted
    /\ \E i \in 0 .. MaxEdges :
          IF i < num_edges
          THEN /\ q' = [op |-> "edge", x |-> i,
                        ret |-> EdgeIndex(adjacency_, i)]
               /\ UNCHANGED aborted
          ELSE /\ q' = [op |-> "edge", x |-> i, ret |-> InvalidEdge]
               /\ aborted' = TRUE
    /\ pc' = "asked"
    /\ UNCHANGED <<nodes_, adjacency_, last, it, seen, edges0, nodeIterVars>>
    /\ UNCHANGED bfsVars

\* The node handles a client may pass: of either graph, with ids that may
\* be past the end of the node table.
AnyNodes == {NodeHandle(g, i) : g \in Graphs, i \in 0 .. MaxNodes}

\* Graph::has_node
HasNode(x) == x.graph_ = ThisGraph /\ x.node_id_ < size

\* The assertions of add_edge without aid != bid.
AddEdgePre_NoSelfLoopCheck(x, y) ==
    /\ ThisGraph = x.graph_ /\ ThisGraph = y.graph_
    /\ x.node_id_ < size /\ y.node_id_ < size

\* The assertions of add_edge.
AddEdgePre(x, y) ==
    /\ ThisGraph = x.graph_ /\ ThisGraph = y.graph_
    /\ x.node_id_ < size /\ y.node_id_ < size /\ x.node_id_ # y.node_id_

\* The assertions of has_edge.
HasEdgePre(x, y) ==
    /\ ThisGraph = x.graph_ /\ ThisGraph = y.graph_
    /\ x.node_id_ < size /\ y.node_id_ < size

\* g.add_edge(x, y) with any two handles.
CallAddEdge ==
    /\ pc = "build"
    /\ ~aborted
    /\ \E x, y \in AnyNodes :
          /\ q' = [op |-> "add_edge", x |-> x, y |-> y]
          /\ IF AddEdgePre(x, y)
             THEN /\ \/ HasEdge(adjacency_, x.node_id_, y.node_id_)
                     \/ num_edges < MaxEdges
                  /\ adjacency_' =
                        AddEdgeAdj(adjacency_, x.node_id_, y.node_id_)
                  /\ UNCHANGED aborted
             ELSE /\ aborted' = TRUE
                  /\ UNCHANGED adjacency_
    /\ pc' = "asked"
    /\ UNCHANGED <<nodes_, last, it, seen, edges0, nodeIterVars>>
    /\ UNCHANGED bfsVars

\* g.has_edge(x, y) with any two handles.
CallHasEdge ==
    /\ pc = "build"
    /\ ~aborted
    /\ \E x, y \in AnyNodes :
          /\ q' = [op |-> "has_edge", x |-> x, y |-> y]
          /\ aborted' = ~HasEdgePre(x, y)
    /\ pc' = "asked"
    /\ UNCHANGED <<nodes_, adjacency_, last, it, seen, edges0, nodeIterVars>>
    /\ UNCHANGED bfsVars

\* g.node(i) with any index.
CallNode ==
    /\ pc = "build"
    /\ ~aborted
    /\ \E i \in 0 .. MaxNodes :
          /\ q' = [op |-> "node", x |-> i]
          /\ aborted' = ~(i < size)
    /\ pc' = "asked"
    /\ UNCHANGED <<nodes_, adjacency_, last, it, seen, edges0, nodeIterVars>>
    /\ UNCHANGED bfsVars

\* g.remove_node(x) with any handle.
CallRemoveNode ==
    /\ pc = "build"
    /\ ~aborted
    /\ \E x \in AnyNodes :
          /\ q' = [op |-> "remove_node", x |-> x]
          /\ IF HasNode(x)
             THEN /\ nodes_' = MoveLastNode(nodes_, x.node_id_)
                  /\ adjacency_' = RemoveNodeAdj(adjacency_, x.node_id_)
                  /\ aborted' \in PastEndOutcomes(adjacency_, x.node_id_)
             ELSE /\ aborted' = TRUE
                  /\ UNCHANGED <<nodes_, adjacency_>>
    /\ pc' = "asked"
    /\ UNCHANGED <<last, it, seen, edges0, nodeIterVars>>
    /\ UNCHANGED bfsVars

\* g.remove_node(n_it) with an iterator of this graph at any id:
\* assert(n_it != node_end()), then remove_node(*n_it).
CallRemoveNodeIt ==
    /\ pc = "build"
    /\ ~aborted
    /\ \E i \in 0 .. MaxNodes :
          /\ q' = [op |-> "remove_node_it", x |-> i]
          /\ IF ~NodeIterEq(i, NodeEnd(nodes_)) /\ HasNode(NodeDeref(i))
             THEN /\ nodes_' = MoveLastNode(nodes_, i)
                  /\ adjacency_' = RemoveNodeAdj(adjacency_, i)
                  /\ aborted' \in PastEndOutcomes(adjacency_, i)
             ELSE /\ aborted' = TRUE
                  /\ UNCHANGED <<nodes_, adjacency_>>
    /\ pc' = "asked"
    /\ UNCHANGED <<last, it, seen, edges0, nodeIterVars>>
    /\ UNCHANGED bfsVars

\* The cursors a client gets from edge_begin() by operator++, up to
\* num_edges() steps, and from edge_end().
EdgeCursors(adj) ==
    {StdNext(adj, EdgeBegin(adj), k) : k \in 0 .. NumEdges(adj)}
        \cup {EdgeEnd(adj)}

\* i == j for two EdgeIterators of this graph.
CompareEdgeIters ==
    /\ pc = "build"
    /\ ~aborted
    /\ \E i, j \in EdgeCursors(adjacency_) :
          q' = [op |-> "iter_cmp", x |-> i, y |-> j, eq |-> IterEq(i, j)]
    /\ pc' = "asked"
    /\ UNCHANGED <<nodes_, adjacency_, aborted, last, it, seen, edges0,
                   nodeIterVars>>
    /\ UNCHANGED bfsVars

NextHandles ==
    \/ HandleBuild
    \/ CompareNodes
    \/ CompareEdges
    \/ QueryDual
    \/ QueryEdge
    \/ CallAddEdge
    \/ CallHasEdge
    \/ CallNode
    \/ CallRemoveNode
    \/ CallRemoveNodeIt
    \/ CompareEdgeIters

SpecHandles == Init /\ [][NextHandles]_vars

(***************************************************************************)
(* Properties of the handles.                                              *)
(***************************************************************************)
\* The set of the two endpoints of an edge handle.
Endpoints(e) == {EdgeNode1(e), EdgeNode2(e)}

\* C24: two valid edge handles of one graph compare equal exactly when
\* their endpoint sets are equal; e == e.dual() for every valid edge, and
\* the equality is reflexive, symmetric and transitive.
C24_EdgeEquality ==
    q.op = "edge_cmp" =>
        /\ q.x.graph_ = q.y.graph_ =>
              (q.eq <=> Endpoints(q.x) = Endpoints(q.y))
        /\ EdgeEq(q.x, EdgeDual(q.x))
        /\ EdgeEq(q.x, q.x)
        /\ q.eq = EdgeEq(q.y, q.x)
        /\ \A z \in ValidEdges : (q.eq /\ EdgeEq(q.y, z)) => EdgeEq(q.x, z)

\* Two different handles of this graph that compare equal, beside another
\* edge.
C24_Witness ==
    /\ q.op = "edge_cmp"
    /\ q.eq
    /\ q.x # q.y
    /\ q.x.graph_ = ThisGraph
    /\ num_edges >= 2

\* C25: for every valid edge handle e, e.dual() is a valid handle, never
\* the invalid default edge, with node1 and node2 exchanged, and
\* e.dual().dual() is the handle e (same origin, same slot).
C25_Dual ==
    q.op = "dual" =>
        /\ q.ret # InvalidEdge
        /\ q.ret \in ValidEdges
        /\ EdgeNode1(q.ret) = EdgeNode2(q.x)
        /\ EdgeNode2(q.ret) = EdgeNode1(q.x)
        /\ EdgeDual(q.ret) = q.x

\* The dual of an edge whose far endpoint has another neighbour stored
\* after the one that points back.
C25_Witness ==
    /\ q.op = "dual"
    /\ q.x.graph_ = ThisGraph
    /\ q.ret.node2_vecid_ < Degree(adjacency_, q.ret.node1_id_) - 1

\* The number of the listed conditions that hold.
CountTrue(bs) == Cardinality({k \in 1 .. Len(bs) : bs[k]})

\* C26: for two valid node handles x and y, of one graph or of two,
\* exactly one of x == y, x < y, y < x holds; in one graph x < y exactly
\* when the id of x is below the id of y.
C26_NodeOrder ==
    q.op = "node_cmp" =>
        /\ CountTrue(<<q.eq, q.lt, q.gt>>) = 1
        /\ q.x.graph_ = q.y.graph_ =>
              (q.lt <=> Index(q.x) < Index(q.y))

\* Handles of two graphs whose ids are ordered against the graphs.
C26_Witness ==
    /\ q.op = "node_cmp"
    /\ q.x.graph_ # q.y.graph_
    /\ Index(q.x) > Index(q.y)
    /\ q.lt

\* (min endpoint id, max endpoint id) of an edge handle.
MinMax(e) ==
    LET a == Index(EdgeNode1(e))
        b == Index(EdgeNode2(e))
    IN  IF a < b THEN <<a, b>> ELSE <<b, a>>

\* C27: in one graph e < f is the lexicographic order on (min endpoint id,
\* max endpoint id); exactly one of e == f, e < f, f < e holds for any two
\* valid edge handles; e < f is the same when e or f is replaced by its
\* dual.
C27_EdgeOrder ==
    q.op = "edge_cmp" =>
        /\ q.x.graph_ = q.y.graph_ =>
              (q.lt <=> LexLess(MinMax(q.x), MinMax(q.y)))
        /\ CountTrue(<<q.eq, q.lt, q.gt>>) = 1
        /\ EdgeLess(EdgeDual(q.x), q.y) = q.lt
        /\ EdgeLess(q.x, EdgeDual(q.y)) = q.lt

\* e < f in this graph although e is stored at the larger origin.
C27_Witness ==
    /\ q.op = "edge_cmp"
    /\ q.x.graph_ = ThisGraph /\ q.y.graph_ = ThisGraph
    /\ q.lt
    /\ q.x.node1_id_ > q.y.node1_id_

\* C28: a store through e.value() changes only the payload at (origin of
\* e, slot of e): the value of e.dual(), every other edge value, every
\* node value and position, and the adjacency structure (neighbour ids,
\* degrees, num_edges()) stay as they were.
C28_EdgeValueFrame ==
    [][last'.op = "edge_value" =>
        LET a == last'.a
            s == last'.b
            d == EdgeDual(EdgeHandle(ThisGraph, a, s))
        IN  /\ nodes_' = nodes_
            /\ Len(adjacency_') = Len(adjacency_)
            /\ num_edges' = num_edges
            /\ \A k \in NodeIds :
                  /\ Degree(adjacency_', k) = Degree(adjacency_, k)
                  /\ \A j \in 0 .. (Degree(adjacency_, k) - 1) :
                        /\ Node2Id(adjacency_', k, j) =
                              Node2Id(adjacency_, k, j)
                        /\ <<k, j>> # <<a, s>> =>
                              adjacency_'[k + 1][j + 1].second =
                                  adjacency_[k + 1][j + 1].second
            /\ adjacency_'[d.node1_id_ + 1][d.node2_vecid_ + 1].second =
                  adjacency_[d.node1_id_ + 1][d.node2_vecid_ + 1].second
       ]_vars

\* A store has just made the two halves of an edge differ.
C28_Witness ==
    /\ last.op = "edge_value"
    /\ adjacency_[last.a + 1][last.b + 1].second # DefaultEdgeValue
    /\ LET d == EdgeDual(EdgeHandle(ThisGraph, last.a, last.b))
       IN  adjacency_[d.node1_id_ + 1][d.node2_vecid_ + 1].second =
               DefaultEdgeValue

\* The call stopped at an assertion and left the tables as they were.
Rejected ==
    /\ aborted'
    /\ nodes_' = nodes_
    /\ adjacency_' = adjacency_

\* A handle that is no node of this graph: of another graph, or with an id
\* not below size().
BadNode(x) == x.graph_ # ThisGraph \/ Index(x) >= size

\* C29: a call that violates its precondition stops at an assertion with
\* the tables unchanged: add_edge(a, b) with a == b, with an id >= size()
\* or with a node of another graph; has_edge with such nodes; node(i) with
\* i >= size(); remove_node of a handle for which has_node is false; and
\* remove_node(node_end()).
C29_PreconditionsAsserted ==
    [][(pc = "build" /\ pc' = "asked") =>
        /\ ( /\ q'.op = "add_edge"
             /\ NodeEq(q'.x, q'.y) \/ BadNode(q'.x) \/ BadNode(q'.y) )
              => Rejected
        /\ (q'.op = "has_edge" /\ (BadNode(q'.x) \/ BadNode(q'.y)))
              => Rejected
        /\ (q'.op = "node" /\ q'.x >= size) => Rejected
        /\ (q'.op = "remove_node" /\ BadNode(q'.x)) => Rejected
        /\ (q'.op = "remove_node_it" /\ q'.x = size) => Rejected]_vars

\* add_edge(a, a) on a valid node of a graph that has an edge was stopped.
C29_Witness ==
    /\ pc = "asked"
    /\ aborted
    /\ q.op = "add_edge"
    /\ NodeEq(q.x, q.y)
    /\ ~BadNode(q.x)
    /\ num_edges >= 1

\* C30: for every i < num_edges(), edge(i) is a valid edge of the graph,
\* edge(i) != edge(j) for i # j, and has_edge(a, b) holds exactly when some
\* edge(i) connects a and b.
C30_EdgeIndex ==
    (q.op = "edge" /\ ~aborted) =>
        LET idx == 0 .. (num_edges - 1)
        IN  /\ q.ret \in ValidEdges
            /\ \A i \in idx : EdgeIndex(adjacency_, i) \in ValidEdges
            /\ \A i, j \in idx :
                  i # j => ~EdgeEq(EdgeIndex(adjacency_, i),
                                   EdgeIndex(adjacency_, j))
            /\ \A a, b \in NodeIds :
                  HasEdge(adjacency_, a, b) <=>
                      \E i \in idx :
                          Endpoints(EdgeIndex(adjacency_, i)) =
                              {node(a), node(b)}

\* C31: has_node(n) is true only for a node the graph has now: it is false
\* for the handle n after remove_node(n) (no node added since), and false
\* for every handle after clear().
C31_HasNodeAfterRemoval ==
    /\ (q.op = "remove_node" /\ q.x.graph_ = ThisGraph) => ~HasNode(q.x)
    /\ size = 0 => \A x \in AnyNodes : ~HasNode(x)

\* C40: two EdgeIterators of one graph compare equal exactly when they hold
\* the same (center, slot) cursor; with the same center and different
\* slots they compare unequal.
C40_EdgeIteratorEquality ==
    q.op = "iter_cmp" => (q.eq <=> q.x = q.y)

(***************************************************************************)
(* remove_node: the indices it uses, and what it leaves in place.          *)
(***************************************************************************)
\* The pairs (index, length of the table at that moment) of the accesses
\* remove_node(nid) makes to nodes_ and to adjacency_: nodes_[nid] and
\* nodes_[lid]; adjacency_[nid] and adjacency_[oid] in the first double
\* loop; adjacency_[nid] and adjacency_[lid] in the copy; and, after the
\* pop_back, adjacency_[nid] in the condition of the second double loop
\* and adjacency_[loid] in its body.
RemoveNodeAccesses(nodes, adj, nid) ==
    LET lid  == Len(nodes) - 1
        adj1 == RemoveReciprocals(adj, nid, 0)
        adj2 == MoveLastAdj(adj1, nid)
    IN  {<<nid, Len(nodes)>>, <<lid, Len(nodes)>>}
        \cup {<<nid, Len(adj)>>, <<lid, Len(adj)>>}
        \cup {<<adj[nid + 1][i].first, Len(adj)>> :
                 i \in 1 .. Len(adj[nid + 1])}
        \cup {<<nid, Len(adj2)>>}
        \cup (IF nid < Len(adj2)
              THEN {<<adj2[nid + 1][i].first, Len(adj2)>> :
                       i \in 1 .. Len(adj2[nid + 1])}
              ELSE {})

\* C37: during remove_node(n) every access to the node table and to the
\* adjacency table uses an index strictly below the current length of the
\* table, also when n is the last node and when n is the only node.
C37_RemoveNodeInRange ==
    [][last'.op = "remove_node" =>
        \A acc \in RemoveNodeAccesses(nodes_, adjacency_, last'.a) :
            acc[1] < acc[2]]_vars

\* C38: after remove_node(n), with nid the id of n and lid the last id,
\* every edge handle (x, s) whose origin x is neither nid nor lid nor a
\* neighbour of n has its slot in range, denotes the same far endpoint
\* (found at id nid if it was at lid) and has the value it had.
C38_HandlesAwayFromRemoval ==
    [][last'.op = "remove_node" =>
        LET nid == last'.a
            lid == last'.b
        IN  \A x \in NodeIds \ {nid, lid} :
                ~HasEdge(adjacency_, nid, x) =>
                    \A s \in 0 .. (Degree(adjacency_, x) - 1) :
                        /\ s < Degree(adjacency_', x)
                        /\ OldId(Node2Id(adjacency_', x, s), nid, lid) =
                              Node2Id(adjacency_, x, s)
                        /\ Node2Id(adjacency_, x, s) # nid
                        /\ adjacency_'[x + 1][s + 1].second =
                              adjacency_[x + 1][s + 1].second]_vars

\* A node without edges was removed below the last id, and the node moved
\* into its id has a neighbour, whose handle now leads to the new id.
C38_Witness ==
    /\ last.op = "remove_node"
    /\ last.a < last.b
    /\ last.ne = num_edges
    /\ \E x \in NodeIds \ {last.a} : HasEdge(adjacency_, x, last.a)

\* C39: remove_node(n) and remove_edge(a, b) keep the payload of every
\* surviving edge: each edge that exists after the call existed before it
\* and has on each of its two halves the value that half held.
C39_RemovalsKeepPayload ==
    [][/\ last'.op = "remove_node" =>
            \A u, v \in 0 .. (size' - 1) :
                HasEdge(adjacency_', u, v) =>
                    LET u0 == OldId(u, last'.a, last'.b)
                        v0 == OldId(v, last'.a, last'.b)
                    IN  /\ HasEdge(adjacency_, u0, v0)
                        /\ HalfValue(adjacency_', u, v) =
                              HalfValue(adjacency_, u0, v0)
       /\ last'.op = "remove_edge" =>
            \A u, v \in NodeIds :
                HasEdge(adjacency_', u, v) =>
                    /\ HasEdge(adjacency_, u, v)
                    /\ HalfValue(adjacency_', u, v) =
                          HalfValue(adjacency_, u, v)]_vars

\* A removal took an edge away and left an edge whose payload is not the
\* default, stored in a list the removal edited.
C39_Witness ==
    /\ last.op \in {"remove_node", "remove_edge"}
    /\ last.ne = num_edges + 1
    /\ \E u, v \in NodeIds :
          /\ HasEdge(adjacency_, u, v)
          /\ HalfValue(adjacency_, u, v) # DefaultEdgeValue
          /\ last.op = "remove_edge" => u \in {last.a, last.b}

(***************************************************************************)
(* The programs that use the graph.  Each builds a graph with add_node and *)
(* add_edge and then runs one algorithm over it.  The k-th node added      *)
(* carries the value k, which tells the nodes apart however the table is   *)
(* reordered; positions are free.                                          *)
(***************************************************************************)
ClientBuild ==
    /\ pc = "build"
    /\ ~aborted
    /\ \/ \E p \in Points :
             /\ size < MaxNodes
             /\ nodes_' = PushNode(nodes_, p, size)
             /\ adjacency_' = PushAdj(adjacency_)
       \/ \E a, b \in NodeIds :
             /\ a # b
             /\ HasEdge(adjacency_, a, b) \/ num_edges < MaxEdges
             /\ adjacency_' = AddEdgeAdj(adjacency_, a, b)
             /\ UNCHANGED nodes_
    /\ UNCHANGED <<aborted, last, clientVars>>

\* Node::position() and Node::value() of the node with id i.
Position(nodes, i) == nodes[i + 1].first

Value(nodes, i) == nodes[i + 1].second

\* The values of the nodes of a table, in table order.
Values(nodes) == [k \in 1 .. Len(nodes) |-> nodes[k].second]

\* The region test of the removal loops: norm(x - c) < r in SphereRemove,
\* bb.contains(x) in remove_box.  Position 1 is inside, position 0 outside.
Inside(p) == p = 1

(***************************************************************************)
(* SphereRemove::operator():                                               *)
(*   it = g.node_begin();                                                  *)
(*   while (it != g.node_end()) {                                          *)
(*     n = *it; x = n.position();                                          *)
(*     if (norm(x - c) < r) it = g.remove_node(it); else ++it;  }          *)
(* seen collects the values of the nodes tested.                           *)
(***************************************************************************)
SphereBegin ==
    /\ pc = "build"
    /\ ~aborted
    /\ pc' = "sphere"
    /\ nit' = NodeBegin(nodes_)
    /\ seen' = <<>>
    /\ nodes0' = nodes_
    /\ UNCHANGED <<nodes_, adjacency_, aborted, last, it, edges0, q, bfsVars>>

\* The test holds: it = g.remove_node(it).
SphereRemoveStep ==
    /\ pc = "sphere"
    /\ ~aborted
    /\ ~NodeIterEq(nit, NodeEnd(nodes_))
    /\ nit < size
    /\ Inside(Position(nodes_, nit))
    /\ seen' = Append(seen, Value(nodes_, nit))
    /\ nodes_' = MoveLastNode(nodes_, Index(NodeDeref(nit)))
    /\ adjacency_' = RemoveNodeAdj(adjacency_, Index(NodeDeref(nit)))
    /\ aborted' \in PastEndOutcomes(adjacency_, Index(NodeDeref(nit)))
    /\ nit' = RemoveNodeItRet(nit)
    /\ UNCHANGED <<last, pc, it, edges0, nodes0, q, bfsVars>>

\* The test fails: ++it.
SphereKeepStep ==
    /\ pc = "sphere"
    /\ ~aborted
    /\ ~NodeIterEq(nit, NodeEnd(nodes_))
    /\ nit < size
    /\ ~Inside(Position(nodes_, nit))
    /\ seen' = Append(seen, Value(nodes_, nit))
    /\ nit' = NodeIncr(nit)
    /\ UNCHANGED <<nodes_, adjacency_, aborted, last, pc, it, edges0,
                   nodes0, q, bfsVars>>

\* it != g.node_end() is false: return.
SphereFinish ==
    /\ pc = "sphere"
    /\ ~aborted
    /\ NodeIterEq(nit, NodeEnd(nodes_))
    /\ pc' = "sphere_done"
    /\ UNCHANGED <<nodes_, adjacency_, aborted, last, it, seen, edges0,
                   nodeIterVars, q, bfsVars>>

(***************************************************************************)
(* remove_box:                                                             *)
(*   for (i = g.node_begin(); i != g.node_end(); ++i) {                    *)
(*     n = *i;                                                             *)
(*     if (bb.contains(n.position())) remove the node i is on;  }         *)
(***************************************************************************)
BoxBegin ==
    /\ pc = "build"
    /\ ~aborted
    /\ pc' = "box"
    /\ nit' = NodeBegin(nodes_)
    /\ seen' = <<>>
    /\ nodes0' = nodes_
    /\ UNCHANGED <<nodes_, adjacency_, aborted, last, it, edges0, q, bfsVars>>

\* The node is in the box: g.remove_node of the node i is on, then ++i.
BoxRemoveStep ==
    /\ pc = "box"
    /\ ~aborted
    /\ ~NodeIterEq(nit, NodeEnd(nodes_))
    /\ nit < size
    /\ Inside(Position(nodes_, nit))
    /\ seen' = Append(seen, Value(nodes_, nit))
    /\ nodes_' = MoveLastNode(nodes_, Index(NodeDeref(nit)))
    /\ adjacency_' = RemoveNodeAdj(adjacency_, Index(NodeDeref(nit)))
    /\ aborted' \in PastEndOutcomes(adjacency_, Index(NodeDeref(nit)))
    /\ nit' = NodeIncr(nit)
    /\ UNCHANGED <<last, pc, it, edges0, nodes0, q, bfsVars>>

\* The node is not in the box: ++i.
BoxKeepStep ==
    /\ pc = "box"
    /\ ~aborted
    /\ ~NodeIterEq(nit, NodeEnd(nodes_))
    /\ nit < size
    /\ ~Inside(Position(nodes_, nit))
    /\ seen' = Append(seen, Value(nodes_, nit))
    /\ nit' = NodeIncr(nit)
    /\ UNCHANGED <<nodes_, adjacency_, aborted, last, pc, it, edges0,
                   nodes0, q, bfsVars>>

\* The iterator is past node_end(), so i != g.node_end() holds and
\* n.position() reads nodes_[i] outside the table.  The read stops the
\* program, or it yields some point: one outside the box, and the loop goes
\* on with ++i, or one inside it, and the assertion of remove_node fails.
\* The walk over memory behind the table is followed up to id MaxNodes.
BoxPastEnd ==
    /\ pc = "box"
    /\ ~aborted
    /\ ~NodeIterEq(nit, NodeEnd(nodes_))
    /\ nit > size
    /\ \/ /\ pc' = "fault"
          /\ UNCHANGED <<nit, aborted>>
       \/ /\ nit <= MaxNodes
          /\ nit' = NodeIncr(nit)
          /\ UNCHANGED <<pc, aborted>>
       \/ /\ ~HasNode(NodeDeref(nit))
          /\ aborted' = TRUE
          /\ UNCHANGED <<pc, nit>>
    /\ UNCHANGED <<nodes_, adjacency_, last, it, seen, edges0, nodes0, q,
                   bfsVars>>

\* i != g.node_end() is false: return.
BoxFinish ==
    /\ pc = "box"
    /\ ~aborted
    /\ NodeIterEq(nit, NodeEnd(nodes_))
    /\ pc' = "box_done"
    /\ UNCHANGED <<nodes_, adjacency_, aborted, last, it, seen, edges0,
                   nodeIterVars, q, bfsVars>>

NextRemoval ==
    \/ ClientBuild
    \/ SphereBegin
    \/ SphereRemoveStep
    \/ SphereKeepStep
    \/ SphereFinish
    \/ BoxBegin
    \/ BoxRemoveStep
    \/ BoxKeepStep
    \/ BoxPastEnd
    \/ BoxFinish

SpecRemoval == Init /\ [][NextRemoval]_vars

\* The loop of SphereRemove is a sequential loop: while it can take a step
\* it takes one.
SpecRemovalFair ==
    SpecRemoval
        /\ WF_vars(SphereRemoveStep \/ SphereKeepStep \/ SphereFinish)

\* The elements of a sequence.
Range(sq) == {sq[k] : k \in 1 .. Len(sq)}

\* Every node of the table at the start of the loop has been tested, once.
TestedAllOnce ==
    /\ Len(seen) = Len(nodes0)
    /\ Range(seen) = Range(Values(nodes0))

\* No node of the graph is inside the region.
NoneInside == \A i \in NodeIds : ~Inside(Position(nodes_, i))

\* C35: the loop of SphereRemove only reads nodes with id < size(); when
\* the iterator reaches node_end(), every node the graph had at the start
\* has been tested exactly once and no node left is inside the sphere; and
\* the loop always gets there: it returns, unless the removal of the node
\* with the last id stops the program in its very last step.
C35_SphereSafe ==
    /\ pc = "sphere" => nit <= size
    /\ (pc = "sphere_done" \/ (pc = "sphere" /\ nit = size)) =>
          TestedAllOnce /\ NoneInside

C35_SphereRemoveLoop ==
    /\ []C35_SphereSafe
    /\ (pc = "sphere") ~> (pc = "sphere_done" \/ aborted)

\* The loop returned after removing two nodes in a row at the same id and
\* keeping a node.
C35_Witness ==
    /\ pc = "sphere_done"
    /\ size >= 1
    /\ Len(nodes0) >= size + 2
    /\ \E k \in 1 .. (Len(nodes0) - 1) :
          Inside(nodes0[k].first) /\ Inside(nodes0[Len(nodes0)].first)

\* C32: when remove_box returns, no node of the graph is in the box.
C32_RemoveBoxPost == pc = "box_done" => NoneInside

\* C36: the loop of remove_box only reads nodes with id < size().
C36_RemoveBoxInRange == pc = "box" => nit <= size

(***************************************************************************)
(* filter_iterator over the node range of the graph, as subgraph.cpp       *)
(* builds it: make_filtered(g.node_begin(), g.node_end(), pred), iterated  *)
(* up to make_filtered(g.node_end(), g.node_end(), pred).  nit is it_, the *)
(* end of the node range is end_, and seen collects the values of the      *)
(* nodes operator* returned.                                               *)
(***************************************************************************)
\* The predicate, on the element at id i: it holds of the nodes at
\* position 1.
Pred(nodes, i) == Position(nodes, i) = 1

\* filter_iterator(p, first, last): it_ = first.
MakeFiltered(first) == first

\* filter_iterator::operator++: ++it_; if (!p_(it_) and it_ != end_) ++it_;
\* At it_ == end_ the outcome of p_ does not matter: the step stays at end_.
FilterIncr(nodes, i) ==
    LET i1 == NodeIncr(i)
    IN  IF ~NodeIterEq(i1, NodeEnd(nodes)) /\ ~Pred(nodes, i1)
        THEN NodeIncr(i1)
        ELSE i1

\* filter_iterator::operator== against make_filtered(last, last, pred)
FilterAtEnd(nodes, i) ==
    NodeIterEq(i, NodeEnd(nodes)) /\ NodeIterEq(NodeEnd(nodes), NodeEnd(nodes))

FilterBegin ==
    /\ pc = "build"
    /\ ~aborted
    /\ pc' = "filter"
    /\ nit' = MakeFiltered(NodeBegin(nodes_))
    /\ seen' = <<>>
    /\ nodes0' = nodes_
    /\ UNCHANGED <<nodes_, adjacency_, aborted, last, it, edges0, q, bfsVars>>

\* n = *it; ++it;
FilterVisit ==
    /\ pc = "filter"
    /\ ~FilterAtEnd(nodes_, nit)
    /\ nit < size
    /\ seen' = Append(seen, Value(nodes_, nit))
    /\ nit' = FilterIncr(nodes_, nit)
    /\ UNCHANGED <<nodes_, adjacency_, aborted, last, pc, it, edges0,
                   nodes0, q, bfsVars>>

FilterFinish ==
    /\ pc = "filter"
    /\ FilterAtEnd(nodes_, nit)
    /\ pc' = "filter_done"
    /\ UNCHANGED <<nodes_, adjacency_, aborted, last, it, seen, edges0,
                   nodeIterVars, q, bfsVars>>

NextFilter ==
    \/ ClientBuild
    \/ FilterBegin
    \/ FilterVisit
    \/ FilterFinish

SpecFilter == Init /\ [][NextFilter]_vars

\* The values of the nodes with id >= i that satisfy the predicate, in
\* table order.
RECURSIVE Satisfying(_, _)
Satisfying(nodes, i) ==
    IF i >= Len(nodes) THEN <<>>
    ELSE IF Pred(nodes, i)
         THEN <<Value(nodes, i)>> \o Satisfying(nodes, i + 1)
         ELSE Satisfying(nodes, i + 1)

\* C34: the filtered iteration never advances past the end of the range,
\* and when it reaches the end it has yielded exactly the elements that
\* satisfy the predicate, in the order of the range.
C34_FilteredRange ==
    /\ pc = "filter" => nit <= size
    /\ pc = "filter_done" => seen = Satisfying(nodes_, 0)

(***************************************************************************)
(* shortest_path_lengths(g, point): a breadth-first search from the node   *)
(* nearest to point, which writes the path lengths into the node values.   *)
(* waiting is the queue of node ids, max the running maximum, it the       *)
(* incident iterator of the inner loop; q records the call, its root and   *)
(* what it returned.                                                       *)
(***************************************************************************)
\* norm(node.position() - p_) in MyComparator
Distance(p, point) == IF p >= point THEN p - point ELSE point - p

\* std::min_element(nifirst, nilast, mc) on a non-empty range: the id of
\* the first node that no node is strictly nearer than.
MinElement(nodes, point) ==
    CHOOSE i \in 0 .. (Len(nodes) - 1) :
        /\ \A j \in 0 .. (Len(nodes) - 1) :
              ~(Distance(Position(nodes, j), point)
                    < Distance(Position(nodes, i), point))
        /\ \A j \in 0 .. (i - 1) :
              Distance(Position(nodes, i), point)
                  < Distance(Position(nodes, j), point)

\* (*nifirst).value() = -1 for every node, then root.value() = 0.
ResetValues(nodes, root) ==
    [k \in 1 .. Len(nodes) |->
        [first |-> nodes[k].first,
         second |-> IF k = root + 1 THEN 0 ELSE -1]]

\* The value of node2 after the two tests of the inner loop that writes
\* cur + 1 over whatever the node holds.
Relax_Always(val, cur) == cur + 1

\* The value of node2 after the two tests of the inner loop: cur + 1 when
\* the node was unvisited (-1) or held more than cur + 1.
Relax(val, cur) ==
    LET v1 == IF val = -1 THEN cur + 1 ELSE val
    IN  IF v1 > cur + 1 THEN cur + 1 ELSE v1

\* max after the two tests of the inner loop.
RelaxMax(m, val, cur) ==
    LET v1 == IF val = -1 THEN cur + 1 ELSE val
        m1 == IF val = -1 /\ v1 > m THEN v1 ELSE m
    IN  IF v1 > cur + 1 /\ cur + 1 > m1 THEN cur + 1 ELSE m1

\* nodes_[i].second = v
StoreValue(nodes, i, v) ==
    [nodes EXCEPT ![i + 1] = [first |-> nodes[i + 1].first, second |-> v]]

\* The call on a non-empty graph, up to waiting.push(root).
SplStart ==
    /\ pc = "build"
    /\ ~aborted
    /\ size >= 1
    /\ \E point \in Points :
          LET root == MinElement(nodes_, point)
          IN  /\ nodes_' = ResetValues(nodes_, root)
              /\ waiting' = <<root>>
              /\ q' = [op |-> "shortest_path_lengths", point |-> point,
                       root |-> root, ret |-> -1]
    /\ max' = 0
    /\ pc' = "bfs"
    /\ UNCHANGED <<adjacency_, aborted, last, it, seen, edges0,
                   nodeIterVars>>

\* The call on an empty graph: min_element returns node_end(), and
\* root.value() = 0 writes nodes_[0] of an empty table.  The program stops,
\* or the stray accesses go unnoticed and it returns some length.
SplStartEmpty ==
    /\ pc = "build"
    /\ ~aborted
    /\ size = 0
    /\ \/ /\ pc' = "fault"
          /\ UNCHANGED q
       \/ /\ pc' = "returned"
          /\ \E point \in Points, m \in 0 .. MaxNodes :
                q' = [op |-> "shortest_path_lengths", point |-> point,
                      root |-> 0, ret |-> m]
    /\ UNCHANGED <<nodes_, adjacency_, aborted, last, it, seen, edges0,
                   nodeIterVars, bfsVars>>

\* r = waiting.front(); cur = r.value(); rbegin = r.edge_begin();
SplFront ==
    /\ pc = "bfs"
    /\ waiting # <<>>
    /\ it' = IncBegin(adjacency_, Head(waiting))
    /\ pc' = "bfs_edges"
    /\ UNCHANGED <<nodes_, adjacency_, aborted, last, seen, edges0,
                   nodeIterVars, q, bfsVars>>

\* One pass of the inner loop, on the edge under rbegin.  r has no edge to
\* itself, so its value is still cur.
SplEdge ==
    /\ pc = "bfs_edges"
    /\ ~IncIterEq(it, IncEnd(adjacency_, it[1]))
    /\ LET n2 == Node2Id(adjacency_, it[1], it[2])
           cur == Value(nodes_, Head(waiting))
           val == Value(nodes_, n2)
       IN  /\ nodes_' = StoreValue(nodes_, n2, Relax(val, cur))
           /\ max' = RelaxMax(max, val, cur)
           /\ waiting' = IF val = -1 THEN Append(waiting, n2) ELSE waiting
    /\ it' = IncIncr(it)
    /\ UNCHANGED <<adjacency_, aborted, last, pc, seen, edges0,
                   nodeIterVars, q>>

\* rbegin == rend: waiting.pop()
SplPop ==
    /\ pc = "bfs_edges"
    /\ IncIterEq(it, IncEnd(adjacency_, it[1]))
    /\ waiting' = Tail(waiting)
    /\ pc' = "bfs"
    /\ UNCHANGED <<nodes_, adjacency_, aborted, last, it, seen, edges0,
                   nodeIterVars, q, max>>

\* waiting.empty(): return max
SplReturn ==
    /\ pc = "bfs"
    /\ waiting = <<>>
    /\ q' = [q EXCEPT !.ret = max]
    /\ pc' = "returned"
    /\ UNCHANGED <<nodes_, adjacency_, aborted, last, it, seen, edges0,
                   nodeIterVars, bfsVars>>

NextPaths ==
    \/ ClientBuild
    \/ SplStart
    \/ SplStartEmpty
    \/ SplFront
    \/ SplEdge
    \/ SplPop
    \/ SplReturn

SpecPaths == Init /\ [][NextPaths]_vars

\* The nodes at most k edges away from root.
RECURSIVE Ball(_, _, _)
Ball(adj, root, k) ==
    IF k = 0 THEN {root}
    ELSE LET B == Ball(adj, root, k - 1)
         IN  B \cup {v \in 0 .. (Len(adj) - 1) :
                        \E u \in B : HasEdge(adj, u, v)}

\* The least number of edges on a path from root to v, -1 if there is none.
PathLength(adj, root, v) ==
    IF v \notin Ball(adj, root, Len(adj)) THEN -1
    ELSE CHOOSE k \in 0 .. Len(adj) :
            /\ v \in Ball(adj, root, k)
            /\ k = 0 \/ v \notin Ball(adj, root, k - 1)

====
